---- MODULE Spec2Model ----
(***************************************************************************)
(* Model of the navigation router of the campus-event calendar             *)
(* (src/Paging/navigation_router.py) together with the part of the host    *)
(* window (src/Backend/main.py) that the router calls back into.           *)
(*                                                                         *)
(* Python values are tagged records.  Texts and dictionary keys are        *)
(* sequences of one-character strings, so that formatting, parsing,        *)
(* truncation and the key-suffix tests are computed character by           *)
(* character.  Time is counted in whole days.                              *)
(***************************************************************************)
EXTENDS Integers, Sequences, FiniteSets, TLC

VARIABLES
    role,                \* main_app.user_role (lower-cased, fixed at construction)
    now,                 \* datetime.now(), in days
    phase,               \* "loaded": router constructed; "running": MainApplication.__init__ done
    current_route,       \* NavigationRouter.current_route
    navigation_history,  \* NavigationRouter.navigation_history
    view_states,         \* NavigationRouter.view_states (insertion-ordered)
    file,                \* content of navigation_state.json
    disk,                \* its size, the .backup sibling, and what the file system allows
    app,                 \* fields of MainApplication the router reads or the callbacks write
    ret,                 \* return value of the last router call
    raised,              \* exceptions raised (and where they were swallowed) in the last call
    trace,               \* steps and callbacks of the last router call, in order
    calls,               \* what each view-creation callback of the last call received
    lastOp,              \* the last router call and its arguments
    prevOp,              \* the router call before that
    ops,                 \* number of calls made so far
    pf_input,            \* input of the serialization pipeline
    pf_results,          \* its successive results: serialize, deserialize, serialize
    pq                   \* the last two permission queries and what they returned

vars == <<role, now, phase, current_route, navigation_history, view_states, file,
          disk, app, ret, raised, trace, calls, lastOp, prevOp, ops, pf_input,
          pf_results, pq>>

routerVars == <<role, now, phase, current_route, navigation_history, view_states,
                file, disk, app, ret, raised, trace, calls, lastOp, prevOp, ops>>

pfVars == <<pf_input, pf_results>>

----------------------------------------------------------------------------
(* Bounds of the model *)

MaxOps == 2
MaxClock == 4
MaxTripOps == 3
MaxDiskOps == 2
MaxLoadOps == 2
MaxSessionOps == 2
MaxQueryOps == 1
MaxStoreOps == 2

(* Policy constants of NavigationRouter.__init__ *)

\* 500 * 1024 bytes
MAX_FILE_SIZE == 512000
MAX_HISTORY_ITEMS == 20
MAX_VIEW_STATES == 10
CLEANUP_DAYS == 2
MAX_STRING_LENGTH == 1000

----------------------------------------------------------------------------
(* Python / Qt values *)

Str(s) == [t |-> "str", s |-> s]
IntV(n) == [t |-> "int", n |-> n]
NoneV == [t |-> "none"]
DateV(y, m, d) == [t |-> "date", y |-> y, m |-> m, dd |-> d]
TimeV(h, mi, s) == [t |-> "time", h |-> h, mi |-> mi, sec |-> s]
Dict(f) == [t |-> "dict", d |-> f]
\* any Python object json.dump has no encoding for
ObjV == [t |-> "obj"]
EmptyDict == Dict(<<>>)

\* QDate() and QTime(): the null values fromString returns when parsing fails
InvalidDate == DateV(0, 0, 0)
InvalidTime == TimeV(-1, -1, -1)

IsLeap(y) == (y % 4 = 0 /\ y % 100 # 0) \/ y % 400 = 0

DaysInMonth(y, m) ==
    IF m = 2 THEN (IF IsLeap(y) THEN 29 ELSE 28)
    ELSE IF m \in {4, 6, 9, 11} THEN 30 ELSE 31

QDate_isValid(v) ==
    /\ v.y \in 1..9999
    /\ v.m \in 1..12
    /\ v.dd \in 1..DaysInMonth(v.y, v.m)

QTime_isValid(v) == v.h \in 0..23 /\ v.mi \in 0..59 /\ v.sec \in 0..59

Digits == <<"0", "1", "2", "3", "4", "5", "6", "7", "8", "9">>

IsDigit(c) == \E i \in 1..10 : Digits[i] = c

DigitVal(c) == (CHOOSE i \in 1..10 : Digits[i] = c) - 1

Pad2(n) == <<Digits[(n \div 10) + 1], Digits[(n % 10) + 1]>>

Pad4(n) == Pad2(n \div 100) \o Pad2(n % 100)

Num2(s, i) == DigitVal(s[i]) * 10 + DigitVal(s[i + 1])

\* QDate.toString("yyyy-MM-dd"); an invalid date gives the empty string
QDate_toString(v) ==
    IF QDate_isValid(v)
    THEN Pad4(v.y) \o <<"-">> \o Pad2(v.m) \o <<"-">> \o Pad2(v.dd)
    ELSE <<>>

\* QTime.toString("hh:mm"): the seconds are not printed
QTime_toString(v) ==
    IF QTime_isValid(v) THEN Pad2(v.h) \o <<":">> \o Pad2(v.mi) ELSE <<>>

\* QDate.fromString(s, "yyyy-MM-dd")
QDate_fromString(s) ==
    IF /\ Len(s) = 10
       /\ s[5] = "-" /\ s[8] = "-"
       /\ \A i \in {1, 2, 3, 4, 6, 7, 9, 10} : IsDigit(s[i])
    THEN LET v == DateV(Num2(s, 1) * 100 + Num2(s, 3), Num2(s, 6), Num2(s, 9))
         IN IF QDate_isValid(v) THEN v ELSE InvalidDate
    ELSE InvalidDate

\* QTime.fromString(s, "hh:mm")
QTime_fromString(s) ==
    IF /\ Len(s) = 5
       /\ s[3] = ":"
       /\ \A i \in {1, 2, 4, 5} : IsDigit(s[i])
    THEN LET v == TimeV(Num2(s, 1), Num2(s, 4), 0)
         IN IF QTime_isValid(v) THEN v ELSE InvalidTime
    ELSE InvalidTime

\* str.endswith
EndsWith(k, suf) ==
    /\ Len(k) >= Len(suf)
    /\ SubSeq(k, Len(k) - Len(suf) + 1, Len(k)) = suf

Suffix_date == <<"_", "d", "a", "t", "e">>
Suffix_time == <<"_", "t", "i", "m", "e">>
Ellipsis == <<".", ".", ".">>

\* Python truthiness of a value (QDate and QTime are true when not null)
Truthy(v) ==
    CASE v.t = "none" -> FALSE
      [] v.t = "str" -> v.s # <<>>
      [] v.t = "int" -> v.n # 0
      [] v.t = "dict" -> DOMAIN v.d # {}
      [] v.t = "date" -> v # InvalidDate
      [] v.t = "time" -> v # InvalidTime
      [] OTHER -> TRUE

\* dict.get(key) on a value that is a dict; None when the key is absent
DictGet(v, k) == IF v.t = "dict" /\ k \in DOMAIN v.d THEN v.d[k] ELSE NoneV

RECURSIVE _serialize_view_state(_)
_serialize_view_state(state) ==
    IF state.t # "dict" THEN state
    ELSE Dict([key \in DOMAIN state.d |->
            LET value == state.d[key] IN
            CASE value.t = "date" -> Str(QDate_toString(value))
              [] value.t = "time" -> Str(QTime_toString(value))
              [] value.t = "dict" -> _serialize_view_state(value)
              [] value.t = "str" /\ Len(value.s) > MAX_STRING_LENGTH ->
                     Str(SubSeq(value.s, 1, MAX_STRING_LENGTH) \o Ellipsis)
              [] OTHER -> value])

RECURSIVE _deserialize_view_state(_)
_deserialize_view_state(state) ==
    IF state.t # "dict" THEN state
    ELSE Dict([key \in DOMAIN state.d |->
            LET value == state.d[key] IN
            CASE EndsWith(key, Suffix_date) /\ value.t = "str" ->
                     QDate_fromString(value.s)
              [] EndsWith(key, Suffix_time) /\ value.t = "str" ->
                     QTime_fromString(value.s)
              [] value.t = "dict" -> _deserialize_view_state(value)
              [] OTHER -> value])

----------------------------------------------------------------------------
(* Keys and sample values *)

K_date == <<"d", "a", "t", "e">>
K_selected_date == <<"s", "e", "l", "e", "c", "t", "e", "d", "_", "d", "a", "t", "e">>
K_current_date == <<"c", "u", "r", "r", "e", "n", "t", "_", "d", "a", "t", "e">>
K_preset_date == <<"p", "r", "e", "s", "e", "t", "_", "d", "a", "t", "e">>
K_start_time == <<"s", "t", "a", "r", "t", "_", "t", "i", "m", "e">>
K_event_data == <<"e", "v", "e", "n", "t", "_", "d", "a", "t", "a">>
K_query == <<"q", "u", "e", "r", "y">>
K_title == <<"t", "i", "t", "l", "e">>
K_description == <<"d", "e", "s", "c", "r", "i", "p", "t", "i", "o", "n">>
K_mode == <<"m", "o", "d", "e">>
K_filter_selection == <<"f", "i", "l", "t", "e", "r", "_", "s", "e", "l", "e", "c", "t", "i", "o", "n">>
K_activity_filter == <<"a", "c", "t", "i", "v", "i", "t", "y", "_", "f", "i", "l", "t", "e", "r">>
K_upcoming_filter == <<"u", "p", "c", "o", "m", "i", "n", "g", "_", "f", "i", "l", "t", "e", "r">>

T_add == <<"a", "d", "d">>
T_edit == <<"e", "d", "i", "t">>
T_all == <<"A", "l", "l">>
T_q == <<"q">>
T_hello == <<"h", "e", "l", "l", "o">>
T_long == [i \in 1..(MAX_STRING_LENGTH + 1) |-> "x"]

Date1 == DateV(2025, 9, 18)
Today == DateV(2025, 9, 20)
Time1 == TimeV(10, 30, 0)
Time2 == TimeV(23, 5, 45)

----------------------------------------------------------------------------
(* Permissions *)

Views == {"calendar", "day_view", "activities", "add_event", "edit_event", "search"}

AdminRoles == {"admin", "administrator", "super_admin"}
OrgRoles == {"org", "organization", "faculty"}

\* the permission list of another revision of the router
get_user_permissions_org_edits(user_role) ==
    [can_add_events |-> user_role \in AdminRoles \cup OrgRoles,
     can_edit_events |-> user_role \in AdminRoles \cup OrgRoles,
     can_delete_events |-> user_role \in AdminRoles,
     restricted_views |->
        IF user_role \in {"student"} THEN {"add_event", "edit_event"}
        ELSE {}]

get_user_permissions(user_role) ==
    [can_add_events |-> user_role \in AdminRoles \cup OrgRoles,
     can_edit_events |-> user_role \in AdminRoles,
     can_delete_events |-> user_role \in AdminRoles,
     restricted_views |->
        IF user_role \in {"student"} THEN {"add_event", "edit_event"}
        ELSE IF user_role \in OrgRoles THEN {"edit_event"}
        ELSE {}]

is_view_allowed(user_role, view_name) ==
    view_name \notin get_user_permissions(user_role).restricted_views

get_default_view_for_user(user_role) == "calendar"

DefaultRoute(user_role) ==
    [view |-> get_default_view_for_user(user_role), params |-> EmptyDict]

validate_and_sanitize_route_trusting(user_role, route) ==
    IF "view" \notin DOMAIN route THEN DefaultRoute(user_role) ELSE route

\* route is a JSON object read from the file: its "view" key may be missing
validate_and_sanitize_route(user_role, route) ==
    IF "view" \notin DOMAIN route THEN DefaultRoute(user_role)
    ELSE IF ~is_view_allowed(user_role, route.view) THEN DefaultRoute(user_role)
    ELSE route

----------------------------------------------------------------------------
(* Timestamps: an ISO string of a naive local time is the day it names;     *)
(* any other string makes datetime.fromisoformat, or the comparison with    *)
(* the naive cutoff, raise.                                                 *)

Stamp(d) == [iso |-> TRUE, day |-> d]
BadStamp == [iso |-> FALSE, day |-> 0]

----------------------------------------------------------------------------
(* view_states: a Python dict in insertion order, as a sequence of pairs *)

VSKeys(vs) == {vs[i].view : i \in 1..Len(vs)}

VSHas(vs, v) == v \in VSKeys(vs)

VSGet(vs, v) == vs[CHOOSE i \in 1..Len(vs) : vs[i].view = v].state

VSPut(vs, v, st) ==
    IF VSHas(vs, v)
    THEN [i \in 1..Len(vs) |-> IF vs[i].view = v THEN [view |-> v, state |-> st] ELSE vs[i]]
    ELSE Append(vs, [view |-> v, state |-> st])

VSDelAt(vs, k) == SubSeq(vs, 1, k - 1) \o SubSeq(vs, k + 1, Len(vs))

PriorityViews == <<"calendar", "day_view", "activities">>

IsPriority(v) == \E i \in 1..Len(PriorityViews) : PriorityViews[i] = v

Take(seq, n) == SubSeq(seq, 1, IF n < Len(seq) THEN (IF n < 0 THEN 0 ELSE n) ELSE Len(seq))

LastN(seq, n) == SubSeq(seq, Len(seq) - n + 1, Len(seq))

\* the view-state branch of cleanup_old_data
FilterViewStates(vs) ==
    LET IsPri(e) == IsPriority(e.view)
        NotPri(e) == ~IsPriority(e.view)
        PriPresent(v) == VSHas(vs, v)
        kept == SelectSeq(PriorityViews, PriPresent)
        filtered == [i \in 1..Len(kept) |-> [view |-> kept[i], state |-> VSGet(vs, kept[i])]]
        remaining_count == MAX_VIEW_STATES - Len(filtered)
    IN filtered \o Take(SelectSeq(vs, NotPri), remaining_count)

----------------------------------------------------------------------------
(* cleanup_old_data.  s is the router (and host) state as a record.         *)

cleanup_old_data(s) ==
    LET h == s.navigation_history
        Fresh(item) == item.timestamp.day > s.now - CLEANUP_DAYS
        unparsable == \E i \in 1..Len(h) : ~h[i].timestamp.iso
        h1 == IF h # <<>> THEN SelectSeq(h, Fresh) ELSE h
        h2 == IF Len(h1) > MAX_HISTORY_ITEMS THEN LastN(h1, MAX_HISTORY_ITEMS) ELSE h1
        vs == s.view_states
        vs2 == IF Len(vs) > MAX_VIEW_STATES THEN FilterViewStates(vs) ELSE vs
    IN IF unparsable
       THEN [s EXCEPT !.raised = Append(@, "cleanup_old_data"),
                      !.trace = Append(@, "cleanup")]
       ELSE [s EXCEPT !.navigation_history = h2,
                      !.view_states = vs2,
                      !.trace = Append(@, "cleanup")]

----------------------------------------------------------------------------
(* The persisted file *)

NoFile == [kind |-> "none"]
InvalidJson == [kind |-> "invalid"]
JsonArray == [kind |-> "array"]
JsonDoc(d) == [kind |-> "doc", d |-> d]

SerializeHistory(h) ==
    [i \in 1..Len(h) |->
        [view |-> h[i].view,
         params |-> _serialize_view_state(h[i].params),
         timestamp |-> h[i].timestamp]]

SerializeStates(vs) ==
    [i \in 1..Len(vs) |->
        [view |-> vs[i].view, state |-> _serialize_view_state(vs[i].state)]]

\* can json.dump encode the value?
RECURSIVE Serializable(_)
Serializable(v) ==
    CASE v.t \in {"str", "int", "none"} -> TRUE
      [] v.t = "dict" -> \A k \in DOMAIN v.d : Serializable(v.d[k])
      [] OTHER -> FALSE

DataSerializable(navigation_data) ==
    /\ Serializable(navigation_data.current_route.params)
    /\ \A i \in 1..Len(navigation_data.navigation_history) :
           Serializable(navigation_data.navigation_history[i].params)
    /\ \A i \in 1..Len(navigation_data.view_states) :
           Serializable(navigation_data.view_states[i].state)

\* bytes json.dump writes for a document (an estimate by its entries), and
\* what is on disk when it stops at a value it cannot encode
DumpSize(navigation_data) ==
    400 + 150 * Len(navigation_data.navigation_history)
        + 100 * Len(navigation_data.view_states)

PartialSize == 4

\* file_size > MAX_FILE_SIZE * 0.8
IsLarge_inclusive(file_size) == file_size * 10 >= MAX_FILE_SIZE * 8

IsLarge(file_size) == file_size * 10 > MAX_FILE_SIZE * 8

\* the backup step: os.rename to the .backup sibling, failure ignored
BackupIfLarge(s) ==
    IF s.file.kind # "none" /\ IsLarge(s.disk.size)
    THEN IF s.disk.renamable
         THEN [s EXCEPT !.disk = [@ EXCEPT !.backup = s.file, !.size = 0],
                        !.file = NoFile,
                        !.trace = Append(@, "backup")]
         ELSE [s EXCEPT !.raised = Append(@, "os.rename")]
    ELSE s

\* open(..., 'w') and json.dump
WriteFile_unguarded(s, navigation_data) ==
    [s EXCEPT !.file = JsonDoc(navigation_data),
              !.disk = [@ EXCEPT !.size = DumpSize(navigation_data)]]

WriteFile(s, navigation_data) ==
    IF ~s.disk.writable
    THEN [s EXCEPT !.raised = Append(@, "save_navigation_state")]
    ELSE IF ~DataSerializable(navigation_data)
    THEN [s EXCEPT !.file = InvalidJson,
                   !.disk = [@ EXCEPT !.size = PartialSize],
                   !.raised = Append(@, "save_navigation_state")]
    ELSE [s EXCEPT !.file = JsonDoc(navigation_data),
                   !.disk = [@ EXCEPT !.size = DumpSize(navigation_data)]]

save_navigation_state(s) ==
    LET c == cleanup_old_data(s)
        navigation_data ==
            [current_route |->
                [view |-> c.current_route.view,
                 params |-> _serialize_view_state(c.current_route.params)],
             navigation_history |-> SerializeHistory(c.navigation_history),
             view_states |-> SerializeStates(c.view_states),
             metadata |->
                [last_updated |-> c.now,
                 user_role |-> c.role,
                 history_count |-> Len(c.navigation_history),
                 view_states_count |-> Len(c.view_states)]]
    IN WriteFile(BackupIfLarge([c EXCEPT !.trace = Append(@, "save")]), navigation_data)

\* the items of the file's navigation_history the loader would read; reading
\* raises KeyError when an item has no view, or is allowed and has no timestamp
HistoryItemRaises(user_role, item) ==
    \/ "view" \notin DOMAIN item
    \/ is_view_allowed(user_role, item.view) /\ "timestamp" \notin DOMAIN item

ItemParams(item) == IF "params" \in DOMAIN item THEN item.params ELSE EmptyDict

LoadHistory_unfiltered(user_role, history_data) ==
    LET Stamped(item) == "timestamp" \in DOMAIN item
        kept == SelectSeq(history_data, Stamped)
    IN [i \in 1..Len(kept) |->
          [view |-> kept[i].view,
           params |-> _deserialize_view_state(ItemParams(kept[i])),
           timestamp |-> kept[i].timestamp]]

LoadHistory(user_role, history_data) ==
    LET Allowed(item) == is_view_allowed(user_role, item.view)
        kept == SelectSeq(history_data, Allowed)
    IN [i \in 1..Len(kept) |->
          [view |-> kept[i].view,
           params |-> _deserialize_view_state(ItemParams(kept[i])),
           timestamp |-> kept[i].timestamp]]

LoadStates(user_role, states_data) ==
    LET Allowed(e) == is_view_allowed(user_role, e.view)
        kept == SelectSeq(states_data, Allowed)
    IN [i \in 1..Len(kept) |->
          [view |-> kept[i].view, state |-> _deserialize_view_state(kept[i].state)]]

\* does the try block of load_navigation_state reach its except clause?
LoadRaises(user_role, f) ==
    \/ f.kind \in {"invalid", "array"}
    \/ /\ f.kind = "doc"
       /\ \/ "current_route" \in DOMAIN f.d /\ "view" \notin DOMAIN f.d.current_route
          \/ /\ "navigation_history" \in DOMAIN f.d
             /\ \E i \in 1..Len(f.d.navigation_history) :
                    HistoryItemRaises(user_role, f.d.navigation_history[i])

\* runs the cleanup on what is in memory when the file is over the limit
check_file_size(s) ==
    IF s.file.kind # "none" /\ s.disk.size > MAX_FILE_SIZE THEN cleanup_old_data(s) ELSE s

load_navigation_state(s0) ==
    LET s == check_file_size(s0)
        f == s.file
        fallback == [s EXCEPT !.current_route = DefaultRoute(s.role),
                              !.navigation_history = <<>>,
                              !.view_states = <<>>]
    IN IF f.kind = "none" THEN fallback
       ELSE IF LoadRaises(s.role, f)
       THEN [fallback EXCEPT !.raised = Append(@, "load_navigation_state")]
       ELSE
         LET data == f.d
             current_route_data ==
                 IF "current_route" \in DOMAIN data THEN data.current_route
                 ELSE [view |-> "calendar", params |-> EmptyDict]
             loaded_route ==
                 [view |-> current_route_data.view,
                  params |-> _deserialize_view_state(ItemParams(current_route_data))]
             history_data ==
                 IF "navigation_history" \in DOMAIN data THEN data.navigation_history
                 ELSE <<>>
             states_data ==
                 IF "view_states" \in DOMAIN data THEN data.view_states ELSE <<>>
         IN cleanup_old_data(
              [s EXCEPT !.current_route = validate_and_sanitize_route(s.role, loaded_route),
                        !.navigation_history = LoadHistory(s.role, history_data),
                        !.view_states = LoadStates(s.role, states_data)])

----------------------------------------------------------------------------
(* State snapshots taken from the host window *)

_get_calendar_state(s) ==
    IF s.app.calendar_ui
    THEN Dict(K_selected_date :> s.app.cal_selected @@ K_filter_selection :> Str(T_all))
    ELSE EmptyDict

\* DayViewManager.day_view_ui stays None: nothing in Backend/ ever sets it
_get_day_view_state(s) == Dict(K_current_date :> s.app.current_date)

_get_activities_state(s) ==
    IF s.app.activities_ui
    THEN Dict(K_activity_filter :> Str(T_all) @@ K_upcoming_filter :> Str(T_all))
    ELSE EmptyDict

_get_event_form_state(s) == Dict(K_mode :> s.app.mode)

FirstNonPriority(vs) ==
    IF \E i \in 1..Len(vs) : ~IsPriority(vs[i].view)
    THEN CHOOSE i \in 1..Len(vs) :
            /\ ~IsPriority(vs[i].view)
            /\ \A j \in 1..(i - 1) : IsPriority(vs[j].view)
    ELSE 0

_save_current_view_state(s) ==
    LET current_view == s.current_route.view
        view_state ==
            CASE current_view = "calendar" -> _get_calendar_state(s)
              [] current_view = "day_view" -> _get_day_view_state(s)
              [] current_view = "activities" -> _get_activities_state(s)
              [] current_view \in {"add_event", "edit_event"} -> _get_event_form_state(s)
              [] OTHER -> EmptyDict
        stored == VSPut(s.view_states, current_view, view_state)
        k == FirstNonPriority(stored)
        limited == IF Len(stored) > MAX_VIEW_STATES /\ k > 0 THEN VSDelAt(stored, k) ELSE stored
        t == [s EXCEPT !.trace = Append(@, "snapshot")]
    IN IF ~is_view_allowed(s.role, current_view) THEN t
       ELSE IF Truthy(view_state) THEN [t EXCEPT !.view_states = limited]
       ELSE t

----------------------------------------------------------------------------
(* The host window's view-creation callbacks (MainApplication) *)

RECURSIVE navigate_to(_, _, _, _)

to_calendar(s) == navigate_to(s, "calendar", EmptyDict, TRUE)

Called(s, name) == [s EXCEPT !.trace = Append(@, name)]

\* entry of a view-creation callback with the arguments the router passes
Received(s, name, params, saved_state) ==
    [Called(s, name) EXCEPT
        !.calls = Append(@, [callback |-> name, params |-> params,
                             saved_state |-> saved_state])]

\* a date handed to QCalendarWidget.setSelectedDate must be a QDate
AppliesAsDate(v) == ~Truthy(v) \/ v.t = "date"

create_calendar_view(s, params, saved_state) ==
    LET c == Received(s, "create_calendar_view", params, saved_state)
        p_date == DictGet(params, K_selected_date)
        s_date == DictGet(saved_state, K_selected_date)
        a0 == [c.app EXCEPT !.calendar_ui = TRUE, !.cal_selected = Today]
        a1 == IF Truthy(p_date)
              THEN [a0 EXCEPT !.cal_selected = p_date, !.current_date = p_date]
              ELSE a0
        a2 == IF Truthy(s_date)
              THEN [a1 EXCEPT !.cal_selected = s_date, !.current_date = s_date]
              ELSE a1
    IN IF ~AppliesAsDate(p_date)
       THEN [c EXCEPT !.app = a0, !.raised = Append(@, "create_calendar_view")]
       ELSE IF ~AppliesAsDate(s_date)
       THEN [c EXCEPT !.app = a1, !.raised = Append(@, "create_calendar_view")]
       ELSE [c EXCEPT !.app = [a2 EXCEPT !.current_view = "calendar"]]

create_search_view(s, params, saved_state) ==
    [Received(s, "create_search_view", params, saved_state) EXCEPT
        !.app = [@ EXCEPT !.current_view = "search", !.calendar_ui = FALSE]]

\* DayViewManager has no setup_day_view_ui: the call raises AttributeError,
\* which create_day_view catches before it updates anything
create_day_view(s, params, saved_state) ==
    [Received(s, "create_day_view", params, saved_state) EXCEPT
        !.raised = Append(@, "create_day_view")]

create_activities_view(s, params, saved_state) ==
    [Received(s, "create_activities_view", params, saved_state) EXCEPT
        !.app = [@ EXCEPT !.activities_ui = TRUE,
                          !.current_view = "activities",
                          !.calendar_ui = FALSE]]

\* restore_event_form_state
RestoredMode(mode, saved_state) ==
    IF Truthy(saved_state) /\ K_mode \in DOMAIN saved_state.d
    THEN saved_state.d[K_mode]
    ELSE mode

create_add_event_view(s, params, saved_state) ==
    LET c == Received(s, "create_add_event_view", params, saved_state)
    IN IF ~is_view_allowed(s.role, "add_event")
       THEN to_calendar(Called(c, "access_denied"))
       ELSE [c EXCEPT !.app = [@ EXCEPT !.add_event_ui = TRUE,
                                        !.mode = RestoredMode(Str(T_add), saved_state),
                                        !.current_view = "add_event",
                                        !.calendar_ui = FALSE]]

\* a callback that opens the form without looking at event_data
create_edit_event_view_unchecked(s, params, saved_state) ==
    LET c == Received(s, "create_edit_event_view", params, saved_state)
    IN IF ~is_view_allowed(s.role, "edit_event")
       THEN to_calendar(Called(c, "access_denied"))
       ELSE [c EXCEPT !.app = [@ EXCEPT !.add_event_ui = TRUE,
                                        !.mode = RestoredMode(Str(T_edit), saved_state),
                                        !.current_view = "edit_event",
                                        !.calendar_ui = FALSE]]

create_edit_event_view(s, params, saved_state) ==
    LET c == Received(s, "create_edit_event_view", params, saved_state)
        event_data == IF Truthy(params) THEN DictGet(params, K_event_data) ELSE NoneV
    IN IF ~is_view_allowed(s.role, "edit_event")
       THEN to_calendar(Called(c, "access_denied"))
       ELSE IF ~Truthy(event_data)
       THEN to_calendar(Called(c, "no_event_data"))
       ELSE [c EXCEPT !.app = [@ EXCEPT !.add_event_ui = TRUE,
                                        !.mode = RestoredMode(Str(T_edit), saved_state),
                                        !.current_view = "edit_event",
                                        !.calendar_ui = FALSE]]

----------------------------------------------------------------------------
(* Navigation *)

\* the else branch of the dispatch: raise ValueError("Unknown view: ...")
UnknownView_ignored(s, view_name) == s

UnknownView(s, view_name) == [s EXCEPT !.raised = Append(@, "_switch_to_view")]

\* a dispatch that hands every callback an empty saved state
_switch_to_view_stateless(s, view_name, params) ==
    LET saved_state == EmptyDict
    IN CASE view_name = "calendar" -> create_calendar_view(s, params, saved_state)
         [] view_name = "day_view" -> create_day_view(s, params, saved_state)
         [] view_name = "activities" -> create_activities_view(s, params, saved_state)
         [] view_name = "add_event" -> create_add_event_view(s, params, saved_state)
         [] view_name = "edit_event" -> create_edit_event_view(s, params, saved_state)
         [] view_name = "search" -> create_search_view(s, params, saved_state)
         [] OTHER -> UnknownView(s, view_name)

_switch_to_view(s, view_name, params) ==
    LET found == IF VSHas(s.view_states, view_name)
                 THEN VSGet(s.view_states, view_name) ELSE EmptyDict
        saved_state == IF Truthy(found) THEN _deserialize_view_state(found) ELSE found
    IN CASE view_name = "calendar" -> create_calendar_view(s, params, saved_state)
         [] view_name = "day_view" -> create_day_view(s, params, saved_state)
         [] view_name = "activities" -> create_activities_view(s, params, saved_state)
         [] view_name = "add_event" -> create_add_event_view(s, params, saved_state)
         [] view_name = "edit_event" -> create_edit_event_view(s, params, saved_state)
         [] view_name = "search" -> create_search_view(s, params, saved_state)
         [] OTHER -> UnknownView(s, view_name)

\* the handler that catches an exception raised at a site: every function of
\* the sequence has its own try/except, but _switch_to_view has none and its
\* ValueError reaches the except clause of navigate_to
SiteHandler_save_uncaught(site) ==
    IF site \in {"_switch_to_view", "save_navigation_state"} THEN "navigate_to" ELSE site

SiteHandler(site) == IF site = "_switch_to_view" THEN "navigate_to" ELSE site

Escaped_never(s) == FALSE

\* did an exception reach the except clause of navigate_to?
Escaped(s) == \E i \in 1..Len(s.raised) : SiteHandler(s.raised[i]) = "navigate_to"

PushHistory_untrimmed(h, route, stamp) ==
    Append(h, [view |-> route.view, params |-> route.params, timestamp |-> stamp])

PushHistory(h, route, stamp) ==
    LET appended == Append(h, [view |-> route.view, params |-> route.params, timestamp |-> stamp])
    IN IF Len(appended) > MAX_HISTORY_ITEMS
       THEN LastN(appended, MAX_HISTORY_ITEMS)
       ELSE appended

RedirectedView_requested(user_role, requested_view) == requested_view

\* the security check of navigate_to: the view and params it goes on with
RedirectedView(user_role, requested_view) ==
    IF is_view_allowed(user_role, requested_view) THEN requested_view
    ELSE get_default_view_for_user(user_role)

RedirectedParams_kept(user_role, requested_view, requested_params) == requested_params

RedirectedParams(user_role, requested_view, requested_params) ==
    IF is_view_allowed(user_role, requested_view) THEN requested_params
    ELSE EmptyDict

navigate_to(s, requested_view, requested_params, save_current) ==
    LET allowed == is_view_allowed(s.role, requested_view)
        view_name == RedirectedView(s.role, requested_view)
        params == RedirectedParams(s.role, requested_view, requested_params)
        s1 == IF allowed THEN s ELSE Called(s, "access_denied")
        snap == _save_current_view_state(s1)
        s2 == IF ~save_current THEN s1
              ELSE IF is_view_allowed(s.role, snap.current_route.view)
              THEN [snap EXCEPT
                      !.navigation_history = PushHistory(@, snap.current_route, Stamp(s.now)),
                      !.trace = Append(@, "push")]
              ELSE snap
        s3 == [s2 EXCEPT !.current_route = [view |-> view_name, params |-> params],
                         !.trace = Append(@, "route")]
        s5 == save_navigation_state(cleanup_old_data(s3))
        s6 == _switch_to_view(s5, view_name, params)
    IN [s6 EXCEPT !.ret = ~Escaped(s6)]

PopAndNavigate_oldest(s) ==
    LET h == s.navigation_history
        s1 == [s EXCEPT !.navigation_history = SubSeq(h, 2, Len(h))]
    IN navigate_to(s1, RedirectedView(s.role, h[1].view),
                   RedirectedParams(s.role, h[1].view, h[1].params), FALSE)

\* go_back when the history is not empty
PopAndNavigate(s) ==
    LET h == s.navigation_history
        popped == h[Len(h)]
        previous_route ==
            IF is_view_allowed(s.role, popped.view)
            THEN [view |-> popped.view, params |-> popped.params]
            ELSE DefaultRoute(s.role)
        s1 == [s EXCEPT !.navigation_history = SubSeq(h, 1, Len(h) - 1),
                        !.trace = Append(@, "pop")]
    IN navigate_to(s1, previous_route.view, previous_route.params, FALSE)

go_back_unguarded(s) ==
    IF s.navigation_history = <<>>
    THEN navigate_to(s, get_default_view_for_user(s.role), EmptyDict, FALSE)
    ELSE PopAndNavigate(s)

go_back(s) ==
    IF s.navigation_history = <<>> THEN [s EXCEPT !.ret = FALSE]
    ELSE PopAndNavigate(s)

\* a clear_history that leaves the file as it is
clear_history_unsaved(s) == [s EXCEPT !.navigation_history = <<>>, !.ret = FALSE]

clear_history(s) ==
    [save_navigation_state([s EXCEPT !.navigation_history = <<>>]) EXCEPT !.ret = FALSE]

force_cleanup(s) ==
    [save_navigation_state(cleanup_old_data(s)) EXCEPT !.ret = FALSE]

----------------------------------------------------------------------------
(* Persisted documents the router may find at start-up: written by an       *)
(* earlier session (possibly under another role), damaged, or edited.       *)

DateText1 == Str(QDate_toString(Date1))

EventData1 == Dict(K_title :> Str(T_hello) @@ K_date :> Date1)

Route_calendar == [view |-> "calendar", params |-> EmptyDict]
Route_day_view == [view |-> "day_view", params |-> Dict(K_date :> DateText1)]
Route_add_event == [view |-> "add_event", params |-> Dict(K_preset_date :> DateText1)]
Route_edit_event ==
    [view |-> "edit_event", params |-> Dict(K_event_data :> _serialize_view_state(EventData1))]
Route_bogus == [view |-> "bogus", params |-> EmptyDict]
Route_no_view == [params |-> EmptyDict]
Route_no_params == [view |-> "search"]

RouteSamples ==
    {Route_calendar, Route_day_view, Route_add_event, Route_edit_event,
     Route_bogus, Route_no_view, Route_no_params}

Item(view, day) == [view |-> view, params |-> EmptyDict, timestamp |-> Stamp(day)]

StartDay == CLEANUP_DAYS + 1

History_fresh == <<Item("calendar", StartDay)>>
History_ages ==
    <<Item("calendar", StartDay - CLEANUP_DAYS - 1),
      Item("search", StartDay - CLEANUP_DAYS),
      Item("activities", StartDay - 1)>>
History_bad_stamp ==
    <<Item("calendar", StartDay - CLEANUP_DAYS - 1),
      [view |-> "activities", params |-> EmptyDict, timestamp |-> BadStamp]>>
History_other_role ==
    <<Item("add_event", StartDay),
      [view |-> "edit_event", params |-> Route_edit_event.params, timestamp |-> Stamp(StartDay)],
      Item("day_view", StartDay)>>
History_no_stamp == <<[view |-> "add_event", params |-> EmptyDict]>>
History_no_view == <<[params |-> EmptyDict, timestamp |-> Stamp(StartDay)]>>
History_full == [i \in 1..MAX_HISTORY_ITEMS |-> Item("calendar", StartDay)]
History_over ==
    [i \in 1..(MAX_HISTORY_ITEMS + 2) |->
        IF i = 1 THEN [view |-> "search", params |-> EmptyDict, timestamp |-> BadStamp]
        ELSE Item("calendar", StartDay)]

HistorySamples ==
    {History_fresh, History_ages, History_bad_stamp, History_other_role,
     History_no_stamp, History_no_view, History_full, History_over}

States_calendar ==
    <<[view |-> "calendar",
       state |-> Dict(K_selected_date :> DateText1 @@ K_filter_selection :> Str(T_all))]>>
States_form == <<[view |-> "add_event", state |-> Dict(K_mode :> Str(T_add))]>>
States_form_data ==
    <<[view |-> "edit_event",
       state |-> Dict(K_mode :> Str(T_edit) @@ K_title :> Str(T_hello)
                      @@ K_description :> Str(T_q))]>>
OtherKeys == <<"settings", "profile", "help", "about", "reports", "inbox", "export", "import", "archive">>
States_many ==
    [i \in 1..Len(OtherKeys) |-> [view |-> OtherKeys[i], state |-> Dict(K_mode :> Str(T_add))]]
    \o States_form \o States_calendar

StatesSamples == {States_calendar, States_form, States_form_data, States_many}

Document(route, history, states) ==
    JsonDoc([current_route |-> route, navigation_history |-> history, view_states |-> states])

InitFiles ==
    {NoFile, InvalidJson, JsonArray, JsonDoc(<<>>)}
    \cup {Document(r, <<>>, <<>>) : r \in RouteSamples}
    \cup {Document(Route_calendar, h, <<>>) : h \in HistorySamples}
    \cup {Document(Route_calendar, <<>>, v) : v \in StatesSamples}
    \cup {Document(Route_edit_event, History_full, States_form),
          Document(Route_day_view, History_over, States_many),
          Document(Route_day_view, History_no_view, States_calendar)}

Roles == {"admin", "faculty", "student", "guest"}

----------------------------------------------------------------------------
(* Calls the host window makes on the router *)

Call(view, params, save_current) ==
    [view |-> view, params |-> params, save_current |-> save_current]

NavCalls ==
    {Call("calendar", EmptyDict, TRUE),                           \* to_calendar()
     Call("calendar", Dict(K_selected_date :> Date1), TRUE),      \* to_calendar(date)
     Call("day_view", Dict(K_date :> Date1), TRUE),               \* to_day_view(date)
     Call("activities", EmptyDict, TRUE),                         \* to_activities()
     Call("add_event", EmptyDict, TRUE),                          \* to_add_event()
     Call("add_event", Dict(K_preset_date :> Date1), TRUE),       \* handle_add_event_request
     Call("edit_event", Dict(K_event_data :> EventData1), TRUE),  \* to_edit_event(event_data)
     Call("edit_event", Dict(K_event_data :> EmptyDict), TRUE),   \* to_edit_event({})
     Call("search", Dict(K_query :> Str(T_q)), TRUE),             \* to_search(query)
     Call("bogus", EmptyDict, TRUE),
     Call("activities", EmptyDict, FALSE),
     Call("edit_event", EmptyDict, FALSE)}

\* a call, its arguments and the time it was made
Op(name, call, at) ==
    [op |-> name, view |-> call.view, params |-> call.params,
     save_current |-> call.save_current, at |-> at]

NoCall == Call("", EmptyDict, FALSE)

InitApp ==
    [current_view |-> "calendar", current_date |-> Today, calendar_ui |-> FALSE,
     cal_selected |-> Today, activities_ui |-> FALSE, add_event_ui |-> FALSE,
     mode |-> Str(T_add)]

\* the state the operations act on, with the per-call records cleared
Cur ==
    [role |-> role, now |-> now, current_route |-> current_route,
     navigation_history |-> navigation_history, view_states |-> view_states,
     file |-> file, disk |-> disk, app |-> app, ret |-> FALSE, raised |-> <<>>,
     trace |-> <<>>, calls |-> <<>>]

Becomes(s) ==
    /\ current_route' = s.current_route
    /\ navigation_history' = s.navigation_history
    /\ view_states' = s.view_states
    /\ file' = s.file
    /\ disk' = s.disk
    /\ app' = s.app
    /\ ret' = s.ret
    /\ raised' = s.raised
    /\ trace' = s.trace
    /\ calls' = s.calls

\* the file system the router finds: the size of an existing file, and
\* whether the file can be renamed and written
SmallSize == 2048

DiskEnv(size, writable, renamable) ==
    [size |-> size, writable |-> writable, renamable |-> renamable]

HealthyDisk == DiskEnv(SmallSize, TRUE, TRUE)

InitDisk(f, env) ==
    [size |-> IF f.kind = "none" THEN 0 ELSE env.size,
     backup |-> NoFile,
     writable |-> env.writable,
     renamable |-> env.renamable]

\* NavigationRouter.__init__ on the file found
Constructed(r, f, env) ==
    load_navigation_state(
        [role |-> r, now |-> StartDay, current_route |-> DefaultRoute(r),
         navigation_history |-> <<>>, view_states |-> <<>>, file |-> f,
         disk |-> InitDisk(f, env),
         app |-> InitApp, ret |-> FALSE, raised |-> <<>>, trace |-> <<>>,
         calls |-> <<>>])

InitRouterOn(roles, files, envs) ==
    \E r \in roles, f \in files, env \in envs :
        LET s == Constructed(r, f, env) IN
        /\ role = r
        /\ disk = s.disk
        /\ now = StartDay
        /\ phase = "loaded"
        /\ current_route = s.current_route
        /\ navigation_history = s.navigation_history
        /\ view_states = s.view_states
        /\ file = s.file
        /\ app = s.app
        /\ ret = s.ret
        /\ raised = s.raised
        /\ trace = s.trace
        /\ calls = s.calls
        /\ lastOp = Op("load", NoCall, StartDay)
        /\ prevOp = Op("none", NoCall, StartDay)
        /\ ops = 0
        /\ pq = <<>>

InitRouter(files) == InitRouterOn(Roles, files, {HealthyDisk})

PipelineIdle ==
    /\ pf_input = EmptyDict
    /\ pf_results = <<>>

Init == InitRouter(InitFiles) /\ PipelineIdle

\* the rest of MainApplication.__init__: the initial navigation
AppStart ==
    /\ phase = "loaded"
    /\ phase' = "running"
    /\ Becomes(IF is_view_allowed(role, current_route.view)
               THEN navigate_to(Cur, current_route.view, current_route.params, TRUE)
               ELSE navigate_to(Cur, get_default_view_for_user(role), EmptyDict, TRUE))
    /\ lastOp' = Op("app_start", NoCall, now)
    /\ prevOp' = lastOp
    /\ UNCHANGED <<role, now, ops, pf_input, pf_results, pq>>

Step(bound, name, call) ==
    /\ phase = "running"
    /\ ops < bound
    /\ ops' = ops + 1
    /\ lastOp' = Op(name, call, now)
    /\ prevOp' = lastOp
    /\ UNCHANGED <<role, now, phase, pf_input, pf_results, pq>>

NavigateTo(bound) ==
    \E c \in NavCalls :
        /\ Step(bound, "navigate_to", c)
        /\ Becomes(navigate_to(Cur, c.view, c.params, c.save_current))

GoBack(bound) ==
    /\ Step(bound, "go_back", NoCall)
    /\ Becomes(go_back(Cur))

ClearHistory(bound) ==
    /\ Step(bound, "clear_history", NoCall)
    /\ Becomes(clear_history(Cur))

ForceCleanup(bound) ==
    /\ Step(bound, "force_cleanup", NoCall)
    /\ Becomes(force_cleanup(Cur))

Tick ==
    /\ phase = "running"
    /\ now < MaxClock
    /\ now' = now + 1
    /\ UNCHANGED <<role, phase, current_route, navigation_history, view_states, file,
                   disk, app, ret, raised, trace, calls, lastOp, prevOp, ops,
                   pf_input, pf_results, pq>>

Next ==
    \/ AppStart
    \/ NavigateTo(MaxOps)
    \/ GoBack(MaxOps)
    \/ ClearHistory(MaxOps)
    \/ ForceCleanup(MaxOps)
    \/ Tick

Spec == Init /\ [][Next]_vars

----------------------------------------------------------------------------
(* Start-up on every sample document, followed by one call                 *)

InitLoad == InitRouter(InitFiles) /\ PipelineIdle

NextLoad ==
    \/ AppStart
    \/ NavigateTo(MaxLoadOps)
    \/ GoBack(MaxLoadOps)

SpecLoad == InitLoad /\ [][NextLoad]_vars

----------------------------------------------------------------------------
(* A longer session of every call, started without a file or on a document *)
(* written under another role                                              *)

SessionFiles == {NoFile, Document(Route_day_view, History_other_role, States_calendar)}

InitSession == InitRouter(SessionFiles) /\ PipelineIdle

NextSession ==
    \/ AppStart
    \/ NavigateTo(MaxSessionOps)
    \/ GoBack(MaxSessionOps)
    \/ ClearHistory(MaxSessionOps)
    \/ ForceCleanup(MaxSessionOps)
    \/ Tick

SpecSession == InitSession /\ [][NextSession]_vars

----------------------------------------------------------------------------
(* Round trips: a session long enough for two navigations and a go_back    *)

TripFiles == {NoFile}

InitTrip == InitRouter(TripFiles) /\ PipelineIdle

\* the navigations a round trip is made of: the calls of the host window to
\* one of the six views, which leave save_current at true
TripCalls == {c \in NavCalls : c.save_current /\ c.view \in Views}

NavigateOnTrip(bound) ==
    \E c \in TripCalls :
        /\ Step(bound, "navigate_to", c)
        /\ Becomes(navigate_to(Cur, c.view, c.params, c.save_current))

NextTrip ==
    \/ AppStart
    \/ NavigateOnTrip(MaxTripOps)
    \/ GoBack(MaxTripOps)
    \/ Tick

SpecTrip == InitTrip /\ [][NextTrip]_vars

----------------------------------------------------------------------------
(* The serialization pipeline on its own: serialize, deserialize, serialize *)

PipelineKeys == {K_date, K_selected_date, K_start_time, K_query, K_event_data}

PipelineValues ==
    {Date1, InvalidDate, Time1, Time2, Str(T_hello), Str(<<>>), DateText1,
     Str(QTime_toString(Time1)), Str(T_long), IntV(9), NoneV,
     EventData1, Dict(K_start_time :> Time2 @@ K_selected_date :> Str(T_hello))}

PipelineInputs ==
    {Dict(k :> v) : k \in PipelineKeys, v \in PipelineValues}
    \cup {Dict(K_preset_date :> Date1 @@ K_query :> v) : v \in PipelineValues}

InitPipeline ==
    /\ InitRouter({NoFile})
    /\ pf_input \in PipelineInputs
    /\ pf_results = <<>>

Serialize ==
    /\ Len(pf_results) \in {0, 2}
    /\ pf_results' = Append(pf_results,
          _serialize_view_state(IF pf_results = <<>> THEN pf_input ELSE pf_results[2]))
    /\ UNCHANGED <<pf_input, pq, routerVars>>

Deserialize ==
    /\ Len(pf_results) = 1
    /\ pf_results' = Append(pf_results, _deserialize_view_state(pf_results[1]))
    /\ UNCHANGED <<pf_input, pq, routerVars>>

NextPipeline == Serialize \/ Deserialize

SpecPipeline == InitPipeline /\ [][NextPipeline]_vars

----------------------------------------------------------------------------
(* Saving on a file system that may refuse: files around the backup         *)
(* threshold, a file that cannot be renamed or written, and a parameter     *)
(* json.dump cannot encode                                                  *)

BackupThreshold == (MAX_FILE_SIZE * 8) \div 10

DiskSizes ==
    {SmallSize, BackupThreshold - 1, BackupThreshold, BackupThreshold + 1, MAX_FILE_SIZE + 1}

DiskEnvs == {DiskEnv(size, w, r) : size \in DiskSizes, w \in BOOLEAN, r \in BOOLEAN}

DiskFiles == {NoFile, InvalidJson, Document(Route_calendar, History_fresh, States_calendar)}

DiskCalls ==
    {Call("calendar", EmptyDict, TRUE),
     Call("add_event", EmptyDict, TRUE),
     Call("edit_event", Dict(K_event_data :> EmptyDict), TRUE),
     Call("search", Dict(K_query :> Str(T_q)), TRUE),
     Call("search", Dict(K_query :> ObjV), TRUE),
     Call("bogus", EmptyDict, TRUE)}

NavigateOnDisk(bound) ==
    \E c \in DiskCalls :
        /\ Step(bound, "navigate_to", c)
        /\ Becomes(navigate_to(Cur, c.view, c.params, c.save_current))

InitOnDisk == InitRouterOn(Roles, DiskFiles, DiskEnvs) /\ PipelineIdle

NextDisk ==
    \/ AppStart
    \/ NavigateOnDisk(MaxDiskOps)
    \/ ForceCleanup(MaxDiskOps)

SpecDisk == InitOnDisk /\ [][NextDisk]_vars

----------------------------------------------------------------------------
(* Every call that mutates the navigation state, on a file system that may  *)
(* refuse                                                                   *)

StoreEnvs == {DiskEnv(SmallSize, w, r) : w \in BOOLEAN, r \in BOOLEAN}

InitStore == InitRouterOn(Roles, DiskFiles, StoreEnvs) /\ PipelineIdle

NextStore ==
    \/ AppStart
    \/ NavigateOnDisk(MaxStoreOps)
    \/ GoBack(MaxStoreOps)
    \/ ClearHistory(MaxStoreOps)

SpecStore == InitStore /\ [][NextStore]_vars

----------------------------------------------------------------------------
(* Permission queries, asked by the host window at any time                 *)

\* every role of the permission table, a role outside it, and the default ''
QueryRoles == AdminRoles \cup OrgRoles \cup {"student", "guest", ""}

QueryFiles == {NoFile, Document(Route_edit_event, History_other_role, States_form)}

Query(name, view) == [name |-> name, view |-> view]

Queries ==
    {Query("get_user_permissions", ""), Query("get_default_view_for_user", "")}
    \cup {Query("is_view_allowed", v) : v \in {"calendar", "add_event", "edit_event", "bogus"}}

QueryResult_stateful(user_role, q) ==
    CASE q.name = "get_user_permissions" -> get_user_permissions(user_role)
      [] q.name = "is_view_allowed" -> is_view_allowed(user_role, q.view)
      [] q.name = "get_default_view_for_user" -> current_route.view

QueryResult(user_role, q) ==
    CASE q.name = "get_user_permissions" -> get_user_permissions(user_role)
      [] q.name = "is_view_allowed" -> is_view_allowed(user_role, q.view)
      [] q.name = "get_default_view_for_user" -> get_default_view_for_user(user_role)

LastTwo(seq) == IF Len(seq) > 2 THEN SubSeq(seq, Len(seq) - 1, Len(seq)) ELSE seq

\* a query reads main_app.user_role and nothing else; pq remembers the
\* answer and the route that was current when it was asked
AskPermission ==
    /\ \E q \in Queries :
          pq' = LastTwo(Append(pq, [name |-> q.name, view |-> q.view,
                                    result |-> QueryResult(role, q),
                                    route |-> current_route.view]))
    /\ UNCHANGED <<routerVars, pf_input, pf_results>>

InitQuery == InitRouterOn(QueryRoles, QueryFiles, {HealthyDisk}) /\ PipelineIdle

\* the navigations between the queries
QueryCalls ==
    {Call("calendar", EmptyDict, TRUE),
     Call("add_event", EmptyDict, TRUE),
     Call("edit_event", Dict(K_event_data :> EventData1), TRUE),
     Call("search", Dict(K_query :> Str(T_q)), TRUE)}

NavigateBetween(bound) ==
    \E c \in QueryCalls :
        /\ Step(bound, "navigate_to", c)
        /\ Becomes(navigate_to(Cur, c.view, c.params, c.save_current))

NextQuery ==
    \/ AppStart
    \/ NavigateBetween(MaxQueryOps)
    \/ AskPermission

SpecQuery == InitQuery /\ [][NextQuery]_vars

----------------------------------------------------------------------------
(* Properties *)

IsNavigate(op) == op.op = "navigate_to"

\* C1: a navigate_to to a view restricted for the role ends with
\* current_route = {view: default view, params: {}}, whatever the params and
\* save_current of the call
C1_PermissionContainment ==
    (IsNavigate(lastOp) /\ ~is_view_allowed(role, lastOp.view))
        => current_route = DefaultRoute(role)

C1_Witness ==
    /\ IsNavigate(lastOp)
    /\ role = "student"
    /\ lastOp.view = "add_event"
    /\ lastOp.params # EmptyDict
    /\ current_route = DefaultRoute(role)
    /\ "access_denied" = trace[1]

\* C2: in every reachable state current_route.view is one of the six views
C2_ViewIsKnown == current_route.view \in Views

\* C3: after a navigate_to with save_current = true the history holds at most
\* MAX_HISTORY_ITEMS entries
C3_HistoryBound ==
    (lastOp.op \in {"navigate_to", "app_start"} /\ (IsNavigate(lastOp) => lastOp.save_current))
        => Len(navigation_history) <= MAX_HISTORY_ITEMS

\* the file held more entries than the limit; after the pushes the history is
\* exactly at the limit and ends with the route just left
C3_Witness ==
    /\ IsNavigate(lastOp) /\ lastOp.save_current
    /\ Len(navigation_history) = MAX_HISTORY_ITEMS
    /\ navigation_history[MAX_HISTORY_ITEMS].view = "day_view"
    /\ navigation_history[1].view = "calendar"

\* C4: right after cleanup_old_data (at the end of a load, or of force_cleanup)
\* no history entry is older than CLEANUP_DAYS days
C4_AgeBound ==
    (lastOp.op \in {"load", "force_cleanup"} /\ lastOp.at = now /\ trace # <<>>)
        => \A i \in 1..Len(navigation_history) :
              navigation_history[i].timestamp.iso
                  => navigation_history[i].timestamp.day > now - CLEANUP_DAYS

\* C5: go_back with an empty history returns false and changes nothing, and
\* invokes no callback
C5_GoBackOnEmpty ==
    [][(lastOp'.op = "go_back" /\ ops' = ops + 1 /\ navigation_history = <<>>)
         => /\ ret' = FALSE
            /\ current_route' = current_route
            /\ navigation_history' = navigation_history
            /\ view_states' = view_states
            /\ file' = file
            /\ app' = app
            /\ trace' = <<>>]_vars

C5_Witness ==
    /\ lastOp.op = "go_back"
    /\ prevOp.op \in {"go_back", "clear_history"}
    /\ navigation_history = <<>>
    /\ ret = FALSE
    /\ trace = <<>>

TwoNavigationsThenBack ==
    /\ lastOp'.op = "go_back" /\ ops' = ops + 1
    /\ IsNavigate(lastOp) /\ lastOp.save_current
    /\ IsNavigate(prevOp) /\ prevOp.save_current
    /\ prevOp.view \in Views /\ lastOp.view \in Views
    /\ is_view_allowed(role, prevOp.view) /\ is_view_allowed(role, lastOp.view)

RestoresFirst ==
    /\ ret' = TRUE
    /\ current_route' = [view |-> prevOp.view, params |-> prevOp.params]

NoEventData(op) ==
    op.view = "edit_event" /\ ~Truthy(DictGet(op.params, K_event_data))

C7_SerializeRoundTrip ==
    Len(pf_results) = 3 => pf_results[3] = pf_results[1]

RECURSIVE DatesSurvive(_, _)
DatesSurvive(before, after) ==
    \A k \in DOMAIN before.d :
        LET v == before.d[k] IN
        CASE v.t \in {"date", "time"} ->
                 after.t = "dict" /\ k \in DOMAIN after.d /\ after.d[k] = v
          [] v.t = "dict" ->
                 after.t = "dict" /\ k \in DOMAIN after.d /\ DatesSurvive(v, after.d[k])
          [] OTHER -> TRUE

\* C8: every date or time in current_route.params, nested ones included, is
\* the same native value again after the saved file is loaded
C8_DatesSurviveReload ==
    (lastOp.op \in {"navigate_to", "go_back"} /\ ret /\ file.kind = "doc")
        => DatesSurvive(current_route.params,
                        load_navigation_state(Cur).current_route.params)

FormViews == {"add_event", "edit_event"}

\* C9: the saved states of add_event and edit_event hold no key but mode
C9_FormStatePrivacy ==
    \A i \in 1..Len(view_states) :
        view_states[i].view \in FormViews => DOMAIN view_states[i].state.d \subseteq {K_mode}

\* C10: a load during which reading or interpreting the file raised leaves
\* the default route, an empty history and no view states
C10_FailedLoadGivesDefaults ==
    (lastOp.op = "load" /\ raised # <<>>)
        => /\ current_route = DefaultRoute(role)
           /\ navigation_history = <<>>
           /\ view_states = <<>>

Callbacks ==
    {"create_calendar_view", "create_day_view", "create_activities_view",
     "create_add_event_view", "create_edit_event_view", "create_search_view"}

InTrace(name) == \E i \in 1..Len(trace) : trace[i] = name

Raised(site) == \E i \in 1..Len(raised) : raised[i] = site

\* the last call reached _switch_to_view (the route it assigned is still the
\* current one unless a callback navigated on)
Navigated == lastOp.op \in {"navigate_to", "app_start", "go_back"} /\ trace # <<>>

\* C11: when _switch_to_view is invoked with a view name outside the six
\* views it raises, and none of the six view-creation callbacks is invoked
C11_UnknownViewRaises ==
    (Navigated /\ current_route.view \notin Views)
        => /\ Raised("_switch_to_view")
           /\ \A i \in 1..Len(trace) : trace[i] \notin Callbacks
           /\ ret = FALSE

C11_Witness ==
    /\ IsNavigate(lastOp) /\ lastOp.view = "bogus"
    /\ current_route.view = "bogus"
    /\ raised = <<"_switch_to_view">>
    /\ trace[Len(trace)] = "save"
    /\ ret = FALSE

\* exceptions raised inside the steps of the router's own sequence
RouterSites == {"cleanup_old_data", "save_navigation_state", "_switch_to_view"}

CallRan == lastOp.op \in {"navigate_to", "go_back"} /\ trace # <<>>

\* C12 as stated: navigate_to and go_back return false if any step of the
\* sequence (snapshot, push, cleanup, save, view switch) raised, and true
\* otherwise
C12_AnyRaiseGivesFalse ==
    CallRan => (ret <=> ~\E i \in 1..Len(raised) : raised[i] \in RouterSites)

\* the view the call ends up switching to
SwitchTarget ==
    IF lastOp'.op = "navigate_to"
    THEN RedirectedView(role, lastOp'.view)
    ELSE RedirectedView(role, navigation_history[Len(navigation_history)].view)

\* C12 amended: a navigate_to, or a go_back on a non-empty history, returns
\* false exactly when the view it switches to is not one of the six (the
\* only exception that reaches the handler of navigate_to); exceptions inside
\* cleanup, save or a view-creation callback are caught there and the call
\* returns true
C12_OnlyUnknownViewGivesFalse ==
    [][(lastOp'.op \in {"navigate_to", "go_back"} /\ ops' = ops + 1 /\ trace' # <<>>)
          => (ret' <=> SwitchTarget \in Views)]_vars

C12_Witness ==
    /\ IsNavigate(lastOp) /\ lastOp.view = "activities"
    /\ Raised("cleanup_old_data")
    /\ InTrace("create_activities_view")
    /\ ret = TRUE

ClaimedFlags(user_role) ==
    CASE user_role \in {"admin", "administrator", "super_admin"} -> <<TRUE, TRUE, TRUE>>
      [] user_role \in {"org", "organization", "faculty"} -> <<TRUE, FALSE, FALSE>>
      [] user_role = "student" -> <<FALSE, FALSE, FALSE>>

ClaimedRestricted(user_role) == IF user_role = "student" THEN {"add_event", "edit_event"} ELSE {}

\* C13: the permission set returned for a role is the table: admin,
\* administrator, super_admin all true and nothing restricted; org,
\* organization, faculty add only; student nothing, and is_view_allowed is
\* false for add_event and edit_event
C13_PermissionTable ==
    \A i \in 1..Len(pq) :
        LET e == pq[i] IN
        /\ (e.name = "get_user_permissions" /\ role \notin {"guest", ""})
              => /\ <<e.result.can_add_events, e.result.can_edit_events,
                       e.result.can_delete_events>> = ClaimedFlags(role)
                 /\ role \in {"admin", "administrator", "super_admin"}
                       => e.result.restricted_views = {}
                 /\ ClaimedRestricted(role) \subseteq e.result.restricted_views
        /\ (e.name = "is_view_allowed" /\ e.view \in ClaimedRestricted(role))
              => e.result = FALSE

C13_Witness ==
    /\ Len(pq) = 2
    /\ role = "student"
    /\ pq[1].name = "get_user_permissions" /\ ~pq[1].result.can_add_events
    /\ pq[2].name = "is_view_allowed" /\ pq[2].view = "edit_event" /\ pq[2].result = FALSE

C15_HistoryIsPermitted ==
    \A i \in 1..Len(navigation_history) : is_view_allowed(role, navigation_history[i].view)

\* a student loads a history written under another role, then navigates
C15_Witness ==
    /\ role = "student"
    /\ IsNavigate(lastOp) /\ lastOp.view = "add_event"
    /\ Len(navigation_history) >= 2
    /\ navigation_history[1].view = "day_view"
    /\ file.kind = "doc"

Loaded == lastOp.op = "load" /\ file.kind = "doc" /\ "current_route" \in DOMAIN file.d

PersistedRoute == file.d.current_route

PersistedPermitted ==
    "view" \in DOMAIN PersistedRoute /\ is_view_allowed(role, PersistedRoute.view)

\* the persisted route in native form
PersistedNative ==
    [view |-> PersistedRoute.view,
     params |-> _deserialize_view_state(ItemParams(PersistedRoute))]

\* C16 as stated: after the load current_route.view is permitted; a persisted
\* route that is restricted or has no view is replaced by {calendar, {}}, and
\* a permitted one is kept
C16_LoadKeepsPermittedRoute ==
    Loaded => /\ is_view_allowed(role, current_route.view)
              /\ ~PersistedPermitted => current_route = DefaultRoute(role)
              /\ PersistedPermitted => current_route = PersistedNative

\* C16 amended: after the load current_route.view is permitted; the route is
\* {calendar, {}} when the persisted one is restricted or has no view, and
\* also when reading the rest of the document raises; otherwise the
\* persisted route is kept
C16_LoadSanitizesRoute ==
    Loaded => /\ is_view_allowed(role, current_route.view)
              /\ (~PersistedPermitted \/ LoadRaises(role, file))
                    => current_route = DefaultRoute(role)
              /\ (PersistedPermitted /\ ~LoadRaises(role, file))
                    => current_route = PersistedNative

C16_Witness ==
    /\ Loaded
    /\ role = "faculty"
    /\ "view" \in DOMAIN PersistedRoute
    /\ PersistedRoute.view = "edit_event"
    /\ current_route = DefaultRoute(role)
    /\ raised = <<>>

\* C17: a load of a document that does not fall back to the defaults ends
\* with at most MAX_HISTORY_ITEMS history entries, none older than
\* CLEANUP_DAYS days, and at most MAX_VIEW_STATES view states
C17_LoadAppliesCleanup ==
    (lastOp.op = "load" /\ file.kind = "doc" /\ ~LoadRaises(role, file))
        => /\ Len(navigation_history) <= MAX_HISTORY_ITEMS
           /\ \A i \in 1..Len(navigation_history) :
                  navigation_history[i].timestamp.iso
                      => navigation_history[i].timestamp.day > now - CLEANUP_DAYS
           /\ Len(view_states) <= MAX_VIEW_STATES

\* a step of the host window during which save_navigation_state ran
SaveRan ==
    /\ ops' = ops + 1 \/ phase' # phase
    /\ \E i \in 1..Len(trace') : trace'[i] = "save"

\* C18: when a save finds the file at 80% of MAX_FILE_SIZE or more (exactly
\* 80% included) the file becomes the .backup sibling before the new document
\* is written; below 80% no backup is made; and when the rename fails the new
\* document is still written
C18_BackupAtThreshold ==
    [][(SaveRan /\ file.kind # "none")
         => /\ (IsLarge_inclusive(disk.size) /\ disk.renamable) => disk'.backup = file
            /\ ~IsLarge_inclusive(disk.size) => disk'.backup = disk.backup
            /\ (IsLarge_inclusive(disk.size) /\ ~disk.renamable /\ disk.writable
                    /\ raised' = <<"os.rename">>)
                  => file'.kind = "doc"]_vars

CallbackOf(view) ==
    CASE view = "calendar" -> "create_calendar_view"
      [] view = "day_view" -> "create_day_view"
      [] view = "activities" -> "create_activities_view"
      [] view = "add_event" -> "create_add_event_view"
      [] view = "edit_event" -> "create_edit_event_view"
      [] view = "search" -> "create_search_view"

\* the route navigate_to assigns for the last call
TargetRoute ==
    [view |-> RedirectedView(role, lastOp.view),
     params |-> RedirectedParams(role, lastOp.view, lastOp.params)]

\* C19: save_navigation_state fails without raising, and a navigate_to to a
\* known view whose save failed still makes the target the current route,
\* invokes the target's view-creation callback and returns true
C19_SaveFailureDoesNotBlock ==
    (IsNavigate(lastOp) /\ Raised("save_navigation_state") /\ TargetRoute.view \in Views)
        => /\ ret = TRUE
           /\ InTrace("route")
           /\ InTrace(CallbackOf(TargetRoute.view))
           /\ current_route =
                 IF TargetRoute.view = "edit_event" /\ NoEventData(lastOp)
                 THEN DefaultRoute(role)
                 ELSE TargetRoute

C19_Witness ==
    /\ IsNavigate(lastOp) /\ lastOp.view = "search"
    /\ ~disk.writable
    /\ Raised("save_navigation_state")
    /\ file = NoFile
    /\ current_route.view = "search"
    /\ app.current_view = "search"
    /\ ret = TRUE

RestrictedNavigation ==
    /\ IsNavigate(lastOp') /\ ops' = ops + 1
    /\ ~is_view_allowed(role, lastOp'.view)

\* the steps of a redirected navigation, in order
RedirectSteps(save_current) ==
    <<"access_denied">>
    \o (IF save_current THEN <<"snapshot", "push">> ELSE <<>>)
    \o <<"route", "cleanup", "cleanup", "save", "create_calendar_view">>

\* C20: a navigate_to to a restricted view emits the access-denied notice,
\* then navigates to the default view in full (the route it leaves is pushed
\* on the history, the state is saved, create_calendar_view is invoked for
\* {calendar, {}}) and returns true; the callback of the requested view is
\* not invoked
C20_RestrictedNavigationIsSilent ==
    [][RestrictedNavigation
         => /\ ret' = TRUE
            /\ trace' = RedirectSteps(lastOp'.save_current)
            /\ current_route' = DefaultRoute(role)
            /\ lastOp'.save_current
                  => /\ navigation_history' # <<>>
                     /\ navigation_history'[Len(navigation_history')] =
                           [view |-> current_route.view,
                            params |-> current_route.params,
                            timestamp |-> Stamp(now)]
            /\ file'.kind = "doc" /\ file'.d.current_route.view = "calendar"]_vars

C20_Witness ==
    /\ role = "student"
    /\ IsNavigate(lastOp) /\ lastOp.view = "add_event" /\ lastOp.save_current
    /\ trace = RedirectSteps(TRUE)
    /\ navigation_history # <<>>
    /\ navigation_history[Len(navigation_history)].view = "search"
    /\ current_route = DefaultRoute(role)
    /\ app.current_view = "calendar"
    /\ ret = TRUE

\* a go_back on a non-empty history whose entries the cleanup of the call
\* keeps: all of them parse and are younger than CLEANUP_DAYS days
BackOnKeptHistory ==
    /\ lastOp'.op = "go_back" /\ ops' = ops + 1
    /\ navigation_history # <<>>
    /\ \A i \in 1..Len(navigation_history) :
           /\ navigation_history[i].timestamp.iso
           /\ navigation_history[i].timestamp.day > now - CLEANUP_DAYS

\* C21: every go_back that returns true leaves navigation_history exactly
\* one entry shorter than before the call, also when the view-creation
\* callback of the popped view itself navigates
C21_BackShortensHistory ==
    [][(BackOnKeptHistory /\ ret')
          => Len(navigation_history') = Len(navigation_history) - 1]_vars

\* the steps C22 orders, as they appear in a trace
OrderedSteps == {"snapshot", "push", "route", "cleanup", "save"} \cup Callbacks

IsOrderedStep(name) == name \in OrderedSteps

\* the route a navigate_to call goes on with after the security check
RouteOf(op) ==
    [view |-> RedirectedView(role, op.view),
     params |-> RedirectedParams(role, op.view, op.params)]

\* the steps of one navigate_to up to the view switch, leaving the route from
SequenceBeforeSwitch(from, save_current) ==
    (IF save_current
     THEN <<"snapshot">> \o (IF is_view_allowed(role, from) THEN <<"push">> ELSE <<>>)
     ELSE <<>>)
    \o <<"route", "cleanup", "cleanup", "save">>

\* the steps of the navigate_to that create_edit_event_view makes when it
\* finds no event data: router.to_calendar()
RedirectSequence(route) ==
    IF NoEventData(route)
    THEN SequenceBeforeSwitch(route.view, TRUE) \o <<"create_calendar_view">>
    ELSE <<>>

NavigateCall == IsNavigate(lastOp') /\ ops' = ops + 1

\* the state saved for a view, as _switch_to_view hands it on
SavedFor(states, view) ==
    IF VSHas(states, view) /\ Truthy(VSGet(states, view))
    THEN _deserialize_view_state(VSGet(states, view))
    ELSE EmptyDict

\* the last callback invoked was the one of the route now current, and it
\* received the params of that route and the state saved for its view
LastCallbackAgrees ==
    LET last == calls'[Len(calls')] IN
    /\ last.callback = CallbackOf(current_route'.view)
    /\ last.params = current_route'.params
    /\ last.saved_state = SavedFor(view_states', current_route'.view)

\* C22 as stated: the steps of one navigate_to are snapshot and push, then
\* the route, then cleanup and save, then a view-creation callback; the
\* router invokes exactly one callback, the one of the final view name, with
\* the params and the state saved for that view
C22_OneCallbackAfterSave ==
    [][NavigateCall
          => LET route == RouteOf(lastOp')
                 before == SequenceBeforeSwitch(current_route.view, lastOp'.save_current)
                 steps == SelectSeq(trace', IsOrderedStep)
             IN /\ Len(steps) > Len(before)
                /\ SubSeq(steps, 1, Len(before)) = before
                /\ steps[Len(before) + 1] \in Callbacks
                /\ calls' # <<>>
                /\ calls'[1].params = route.params]_vars

\* C22 amended: the same order; the router invokes exactly one callback, the
\* one of the final view name, when that name is one of the six views, and
\* none otherwise; a callback that navigates on (create_edit_event_view
\* without event data) starts a second sequence of the same order
C22_StepsInOrder ==
    [][NavigateCall
          => LET route == RouteOf(lastOp')
                 steps == SelectSeq(trace', IsOrderedStep)
             IN IF route.view \in Views
                THEN /\ steps =
                          SequenceBeforeSwitch(current_route.view, lastOp'.save_current)
                          \o <<CallbackOf(route.view)>> \o RedirectSequence(route)
                     /\ calls'[1].callback = CallbackOf(route.view)
                     /\ calls'[1].params = route.params
                     /\ LastCallbackAgrees
                ELSE /\ steps =
                          SequenceBeforeSwitch(current_route.view, lastOp'.save_current)
                     /\ calls' = <<>>]_vars

\* back on the calendar after a visit to the search: create_calendar_view
\* receives the date saved when the calendar was left
C22_Witness ==
    /\ IsNavigate(lastOp) /\ lastOp.view = "calendar" /\ lastOp.save_current
    /\ prevOp.view = "search"
    /\ trace = <<"snapshot", "push", "route", "cleanup", "cleanup", "save",
                 "create_calendar_view">>
    /\ Len(calls) = 1
    /\ calls[1].params = lastOp.params
    /\ K_selected_date \in DOMAIN calls[1].saved_state.d
    /\ calls[1].saved_state.d[K_selected_date] = Today

Mutating == lastOp.op \in {"navigate_to", "app_start", "go_back", "clear_history"}

HistoryViews(h) == [i \in 1..Len(h) |-> h[i].view]

\* the persisted document names the route, the history views and the
\* view-state keys held in memory
FileAgreesWithMemory ==
    /\ file.kind = "doc"
    /\ file.d.current_route.view = current_route.view
    /\ HistoryViews(file.d.navigation_history) = HistoryViews(navigation_history)
    /\ VSKeys(file.d.view_states) = VSKeys(view_states)

\* json.dump has an encoding for everything the navigation state holds
MemoryEncodable ==
    DataSerializable(
        [current_route |-> [params |-> _serialize_view_state(current_route.params)],
         navigation_history |-> SerializeHistory(navigation_history),
         view_states |-> SerializeStates(view_states)])

StatesBeforeLoadCleanup ==
    IF "view_states" \in DOMAIN file.d THEN LoadStates(role, file.d.view_states) ELSE <<>>

\* C24: after cleanup_old_data returns (at the end of a load, or of
\* force_cleanup) view_states has at most MAX_VIEW_STATES entries, and each
\* of calendar, day_view and activities that had a saved state before the
\* call still has the same one
C24_CleanupBoundsViewStates ==
    (lastOp.op \in {"load", "force_cleanup"} /\ InTrace("cleanup"))
        => /\ Len(view_states) <= MAX_VIEW_STATES
           /\ (lastOp.op = "load" /\ file.kind = "doc" /\ ~LoadRaises(role, file))
                 => \A i \in 1..Len(PriorityViews) :
                        LET v == PriorityViews[i] IN
                        VSHas(StatesBeforeLoadCleanup, v)
                            => /\ VSHas(view_states, v)
                               /\ VSGet(view_states, v) = VSGet(StatesBeforeLoadCleanup, v)

\* the history in memory when the cleanup of a load starts
HistoryBeforeLoadCleanup ==
    IF "navigation_history" \in DOMAIN file.d
    THEN LoadHistory(role, file.d.navigation_history)
    ELSE <<>>

\* no entry is older than CLEANUP_DAYS days: the cleanup has only the count
\* to enforce
NothingAged(h) ==
    \A i \in 1..Len(h) : h[i].timestamp.iso => h[i].timestamp.day > now - CLEANUP_DAYS

\* C25: when the history exceeds MAX_HISTORY_ITEMS entries, cleanup_old_data
\* and navigate_to keep exactly the MAX_HISTORY_ITEMS most recently appended
\* entries in their order, and the entry pushed by the latest navigation is
\* the last element
C25_TrimKeepsNewest ==
    /\ (/\ lastOp.op = "load" /\ InTrace("cleanup")
        /\ file.kind = "doc" /\ ~LoadRaises(role, file)
        /\ Len(HistoryBeforeLoadCleanup) > MAX_HISTORY_ITEMS
        /\ NothingAged(HistoryBeforeLoadCleanup))
          => navigation_history = LastN(HistoryBeforeLoadCleanup, MAX_HISTORY_ITEMS)
    /\ (lastOp.op \in {"navigate_to", "app_start"} /\ InTrace("push"))
          => /\ Len(navigation_history) \in 1..MAX_HISTORY_ITEMS
             /\ navigation_history[Len(navigation_history)].timestamp = Stamp(lastOp.at)

\* C26: for a role permitted to reach edit_event, a navigation to edit_event
\* whose event_data is absent or empty is rejected by the callback and
\* redirected: when the call returns current_route.view and the host
\* window's current_view are both calendar, and the edit form was not set up
C26_EditWithoutDataRedirects ==
    [][(/\ NavigateCall
        /\ lastOp'.view = "edit_event"
        /\ is_view_allowed(role, "edit_event")
        /\ NoEventData(lastOp'))
          => /\ \E i \in 1..Len(trace') : trace'[i] = "no_event_data"
             /\ current_route'.view = "calendar"
             /\ app'.current_view = "calendar"
             /\ app'.mode = app.mode
             /\ app'.add_event_ui = app.add_event_ui]_vars

\* to_edit_event({}) from the search view
C26_Witness ==
    /\ IsNavigate(lastOp) /\ lastOp.view = "edit_event" /\ lastOp.save_current
    /\ lastOp.params = Dict(K_event_data :> EmptyDict)
    /\ prevOp.view = "search"
    /\ role = "admin"
    /\ InTrace("no_event_data")
    /\ current_route = DefaultRoute(role)
    /\ app.current_view = "calendar"
    /\ ~app.add_event_ui

\* C27: for every role string, known or not, an answer of true from
\* is_view_allowed('add_event') comes with can_add_events = true, and one
\* from is_view_allowed('edit_event') with can_edit_events = true
C27_FlagsAgreeWithRestrictions ==
    \A i \in 1..Len(pq) :
        (pq[i].name = "is_view_allowed" /\ pq[i].result = TRUE)
            => /\ pq[i].view = "add_event"
                     => QueryResult(role, Query("get_user_permissions", "")).can_add_events
               /\ pq[i].view = "edit_event"
                     => QueryResult(role, Query("get_user_permissions", "")).can_edit_events

\* C28: whenever navigate_to returns false, current_route,
\* navigation_history and the persisted document are what they were before
\* the call
C28_FailedNavigationChangesNothing ==
    [][(NavigateCall /\ ret' = FALSE)
          => /\ current_route' = current_route
             /\ navigation_history' = navigation_history
             /\ file' = file]_vars

\* C29: after every navigate_to or go_back that returns true the host
\* window's current_view equals the router's current_route.view
C29_TrackersAgree ==
    (lastOp.op \in {"navigate_to", "go_back"} /\ ret = TRUE)
        => app.current_view = current_route.view

\* C30: the initial navigation of MainApplication.__init__ leaves
\* current_route equal to the sanitized persisted route (or the default) the
\* router loaded, and adds no entry to navigation_history
C30_StartupOnlyRestores ==
    [][(phase = "loaded" /\ phase' = "running")
          => /\ current_route' = current_route
             /\ navigation_history' = navigation_history]_vars

====
